---- MODULE Spec2Model ----
(***************************************************************************)
(* Model of animated/qubits.py: the function qubit(), which builds one     *)
(* Bloch-sphere scene and plays its four-step timeline, and the twelve     *)
(* scene classes that call it.                                             *)
(*                                                                         *)
(* Numbers.  Every angle the model uses is a multiple of 45 degrees and    *)
(* every axis has components in {0, 1, 1/sqrt 2}, so all coordinates lie   *)
(* in the field Q(sqrt 2).  A number is <<a, b, d>>, standing for          *)
(* (a + b*sqrt 2)/d with d > 0 and gcd(a, b, d) = 1, so that equal numbers *)
(* are equal tuples.  The arithmetic is exact; the rounding of the         *)
(* program's IEEE doubles (relative error 1e-16) is left out, except where *)
(* it decides whether a division is 0/0 (see FloatZeroPossible).           *)
(***************************************************************************)
EXTENDS Integers, Sequences, FiniteSets

\* ----------------------------------------------------------------------
\* Bounds of the model
\* ----------------------------------------------------------------------

\* start_point[0] (azimuth) ranges over 45*k degrees, k in 0..MaxAz
MaxAz == 7
\* start_point[1] (polar angle) ranges over 45*k degrees, k in 0..MaxPol
MaxPol == 4
\* rotate_angle ranges over 45*k degrees, k in 1..MaxTurn
MaxTurn == 4
\* rendered frames sampled inside one wait or play
MaxFrames == 2

\* ----------------------------------------------------------------------
\* Exact arithmetic in Q(sqrt 2)
\* ----------------------------------------------------------------------

Abs(n) == IF n < 0 THEN -n ELSE n

RECURSIVE GCD(_, _)
GCD(m, n) == IF n = 0 THEN m ELSE GCD(n, m % n)

\* the normal form of (a + b*sqrt 2)/d, d # 0
Q(a, b, d) ==
    LET g == GCD(GCD(Abs(a), Abs(b)), Abs(d))
        s == IF d < 0 THEN -1 ELSE 1
    IN  <<(s * a) \div g, (s * b) \div g, (s * d) \div g>>

QInt(n) == <<n, 0, 1>>
QZero == QInt(0)
QOne == QInt(1)

QAdd(p, q) == Q(p[1] * q[3] + q[1] * p[3], p[2] * q[3] + q[2] * p[3], p[3] * q[3])
QNeg(p) == <<-p[1], -p[2], p[3]>>
QSub(p, q) == QAdd(p, QNeg(q))
QMul(p, q) == Q(p[1] * q[1] + 2 * p[2] * q[2], p[1] * q[2] + p[2] * q[1], p[3] * q[3])

\* the sign of a + b*sqrt 2, as -1, 0 or 1
QSign(p) ==
    LET a == p[1]
        b == p[2]
    IN  IF a = 0 /\ b = 0 THEN 0
        ELSE IF a >= 0 /\ b >= 0 THEN 1
        ELSE IF a <= 0 /\ b <= 0 THEN -1
        ELSE IF a > 0 THEN (IF a * a > 2 * b * b THEN 1 ELSE -1)
        ELSE (IF 2 * b * b > a * a THEN 1 ELSE -1)

\* sqrt(2)/2
QHalfRoot2 == <<0, 1, 2>>

\* ----------------------------------------------------------------------
\* Vectors of R^3 (numpy arrays of three doubles)
\* ----------------------------------------------------------------------

Zero3 == <<QZero, QZero, QZero>>
VAdd(u, v) == <<QAdd(u[1], v[1]), QAdd(u[2], v[2]), QAdd(u[3], v[3])>>
VSub(u, v) == <<QSub(u[1], v[1]), QSub(u[2], v[2]), QSub(u[3], v[3])>>
VScale(k, v) == <<QMul(k, v[1]), QMul(k, v[2]), QMul(k, v[3])>>
\* np.dot
Dot(u, v) == QAdd(QAdd(QMul(u[1], v[1]), QMul(u[2], v[2])), QMul(u[3], v[3]))
\* np.cross
Cross(u, v) ==
    <<QSub(QMul(u[2], v[3]), QMul(u[3], v[2])),
      QSub(QMul(u[3], v[1]), QMul(u[1], v[3])),
      QSub(QMul(u[1], v[2]), QMul(u[2], v[1]))>>
\* the squared Euclidean norm: np.linalg.norm(v) ** 2
NormSq(v) == Dot(v, v)
\* the determinant of the matrix with rows u, v, w
Det3(u, v, w) == Dot(u, Cross(v, w))

\* ----------------------------------------------------------------------
\* Trigonometry on multiples of 45 degrees
\* ----------------------------------------------------------------------

\* np.cos(deg * DEGREES)
CosDeg(deg) ==
    LET k == (deg \div 45) % 8
    IN  CASE k = 0 -> QOne
          [] k \in {1, 7} -> QHalfRoot2
          [] k \in {2, 6} -> QZero
          [] k \in {3, 5} -> QNeg(QHalfRoot2)
          [] k = 4 -> QNeg(QOne)

\* np.sin(deg * DEGREES)
SinDeg(deg) ==
    LET k == (deg \div 45) % 8
    IN  CASE k \in {0, 4} -> QZero
          [] k \in {1, 3} -> QHalfRoot2
          [] k = 2 -> QOne
          [] k \in {5, 7} -> QNeg(QHalfRoot2)
          [] k = 6 -> QNeg(QOne)


\* ----------------------------------------------------------------------
\* Program constants and the framework's rotation
\* ----------------------------------------------------------------------

Xaxis == <<QOne, QZero, QZero>>
Yaxis == <<QZero, QOne, QZero>>
Zaxis == <<QZero, QZero, QOne>>
\* [1./np.sqrt(2.), 0., 1./np.sqrt(2.)], the axis of the Hadamard scenes
Haxis == <<QHalfRoot2, QZero, QHalfRoot2>>

\* Mobject.rotate_about_origin(deg * DEGREES, axis = n) applied to the point
\* v, for a unit axis n: the right-handed rotation about n (Rodrigues)
Rotate(v, deg, n) ==
    LET c == CosDeg(deg)
        s == SinDeg(deg)
    IN  VAdd(VAdd(VScale(c, v), VScale(s, Cross(n, v))),
             VScale(QMul(Dot(n, v), QSub(QOne, c)), n))

\* point * 1.25
LabelRadius(p) == VScale(Q(5, 0, 4), p)

\* ----------------------------------------------------------------------
\* The scene classes: the arguments each passes to qubit().  The TeX
\* strings are abbreviated: "|0>" is r"|0\rangle"; "None" is the default
\* end_coef = None.
\* ----------------------------------------------------------------------

Call(name, az, pol, axis, angle, basis, sname, ename, coef) ==
    [scene |-> name, start_point |-> <<az, pol>>, rotate_axis |-> axis,
     rotate_angle |-> angle, show_basis |-> basis, start_name |-> sname,
     end_name |-> ename, end_coef |-> coef]

X0 == Call("X0", 0, 0, Xaxis, 180, FALSE, "|0>", "|1>", "None")
X1 == Call("X1", 0, 180, Xaxis, 180, FALSE, "|1>", "|0>", "None")
X == Call("X", 45, 45, Xaxis, 180, TRUE, "|psi>", "|psi>", "None")
Y0 == Call("Y0", 0, 0, Yaxis, 180, FALSE, "|0>", "|1>", "i")
\* Y1 with the sign of its coefficient lost
Y1_PlusI == Call("Y1", 0, 180, Yaxis, 180, FALSE, "|1>", "|0>", "i")
Y1 == Call("Y1", 0, 180, Yaxis, 180, FALSE, "|1>", "|0>", "-i")
Y == Call("Y", 45, 45, Yaxis, 180, TRUE, "|psi>", "|psi>", "None")
Z0 == Call("Z0", 0, 0, Zaxis, 180, FALSE, "|0>", "|0>", "None")
Z1 == Call("Z1", 0, 180, Zaxis, 180, FALSE, "|1>", "|1>", "-")
Z == Call("Z", 45, 45, Zaxis, 180, TRUE, "|psi>", "|psi>", "None")
H0 == Call("H0", 0, 0, Haxis, 180, FALSE, "|0>", "|+>", "None")
\* H1 as a copy of X1 with only its labels changed
H1_AboutX == Call("H1", 0, 180, Xaxis, 180, FALSE, "|1>", "|->", "None")
H1 == Call("H1", 0, 180, Haxis, 180, FALSE, "|1>", "|->", "None")
H == Call("H", 45, 45, Haxis, 180, TRUE, "|psi>", "|psi>", "None")

BasisScenes == {X0, X1, Y0, Y1, Z0, Z1, H0, H1}
Scenes == BasisScenes \cup {X, Y, Z, H}

\* qubit() called with other arguments: every start point and rotation
\* angle of the 45-degree grid, about each of the four axes, with and
\* without the basis labels and a coefficient label
OtherCalls ==
    {Call("call", 45 * i, 45 * j, ax, 45 * k, b, "|psi>", "|psi>", c) :
        i \in 0..MaxAz, j \in 0..MaxPol, ax \in {Xaxis, Yaxis, Zaxis, Haxis},
        k \in 1..MaxTurn, b \in BOOLEAN, c \in {"None", "-"}}

\* ----------------------------------------------------------------------
\* qubit(): construction (lines 23-146)
\* ----------------------------------------------------------------------

\* the point with np.sin for np.cos in its third component
Point_SinPolar(start_point) ==
    <<QMul(CosDeg(start_point[1]), SinDeg(start_point[2])),
      QMul(SinDeg(start_point[1]), SinDeg(start_point[2])),
      SinDeg(start_point[2])>>

\* the Cartesian point of start_point = [azimuth, polar], in degrees
Point(start_point) ==
    <<QMul(CosDeg(start_point[1]), SinDeg(start_point[2])),
      QMul(SinDeg(start_point[1]), SinDeg(start_point[2])),
      CosDeg(start_point[2])>>

\* x = point - np.dot(point, z) * z, before it is normalised
Perp(point, z) == VSub(point, VScale(Dot(point, z), z))

\* the start point lies on the rotation axis: x is the zero vector in exact
\* arithmetic
Collinear(point, z) == Perp(point, z) = Zero3

\* Whether component i of the double array `point` is exactly 0.0.  In
\* IEEE arithmetic sin(0.0) is 0.0, but the sine of the double nearest a
\* non-zero multiple of pi and the cosine of the double nearest an odd
\* multiple of pi/2 are about 1e-16, not 0.0, and products of such values
\* do not underflow.
FloatComponentZero(start_point, i) ==
    CASE i = 1 -> start_point[2] = 0
      [] i = 2 -> start_point[1] = 0 \/ start_point[2] = 0
      [] i = 3 -> FALSE

\* the index of the coordinate axis z is, or 0
AxisIndex(z) ==
    IF z = Xaxis THEN 1 ELSE IF z = Yaxis THEN 2 ELSE IF z = Zaxis THEN 3 ELSE 0

\* r = np.linalg.norm(x) can be exactly 0.0: x is zero in exact arithmetic
\* and, about a coordinate axis (where x is `point` with one component
\* cleared, computed without rounding), the other two components of the
\* doubles are 0.0 too.  About another axis the rounding decides.
FloatZeroPossible(start_point, z) ==
    /\ Collinear(Point(start_point), z)
    /\ AxisIndex(z) # 0 =>
         \A i \in {1, 2, 3} \ {AxisIndex(z)} : FloatComponentZero(start_point, i)

\* r can be a rounding residue, about 1e-16 and positive, although x is
\* zero in exact arithmetic
ResiduePossible(start_point, z) ==
    /\ Collinear(Point(start_point), z)
    /\ AxisIndex(z) # 0 =>
         \E i \in {1, 2, 3} \ {AxisIndex(z)} : ~FloatComponentZero(start_point, i)

\* the unit vectors a residue x can be normalised to: its direction is
\* rounding noise perpendicular to z
ResidueDirs(z) ==
    {u \in {Xaxis, Yaxis, Zaxis, <<QHalfRoot2, QZero, QNeg(QHalfRoot2)>>,
            VScale(QInt(-1), Xaxis), VScale(QInt(-1), Yaxis), VScale(QInt(-1), Zaxis),
            <<QNeg(QHalfRoot2), QZero, QHalfRoot2>>} : Dot(u, z) = QZero}

\* the frame with y = np.cross(x, z)
Frame_LeftHanded(point, z) ==
    LET x == Perp(point, z)
    IN  [nan |-> FALSE, xdir |-> x, ydir |-> Cross(x, z), n2 |-> NormSq(x),
         z |-> z, r2 |-> NormSq(x), d |-> Dot(point, z)]

\* The frame of lines 55-59.  A unit vector v/|v| is held as the pair
\* (v, |v|^2), because |v| need not lie in Q(sqrt 2): x is xdir/sqrt(n2) and
\* y is ydir/sqrt(n2); r is held as its square r2, and d is np.dot(point, z).
\* nan: r was 0.0, so x /= r was 0/0 and x, y are NaN.
Frame(point, z) ==
    LET x == Perp(point, z)
    IN  [nan |-> FALSE, xdir |-> x, ydir |-> Cross(z, x), n2 |-> NormSq(x),
         z |-> z, r2 |-> NormSq(x), d |-> Dot(point, z)]

\* the frame when x is a rounding residue in the direction u: r rounds to 0
ResidueFrame(point, z, u) ==
    [nan |-> FALSE, xdir |-> u, ydir |-> Cross(z, u), n2 |-> NormSq(u),
     z |-> z, r2 |-> QZero, d |-> Dot(point, z)]

\* the frame after 0/0
NaNFrame(point, z) ==
    [nan |-> TRUE, xdir |-> Zero3, ydir |-> Zero3, n2 |-> QZero,
     z |-> z, r2 |-> QZero, d |-> Dot(point, z)]

\* r * x and r * y: r/sqrt(n2) is 1 in a regular frame (n2 = r2) and rounds to
\* 0 in a residue frame
RX(f) == IF f.r2 = f.n2 THEN f.xdir ELSE Zero3
RY(f) == IF f.r2 = f.n2 THEN f.ydir ELSE Zero3

\* Lines 60-69 and 72-78: the point of Arc(r, 0, a) at angle t, which is
\* (r cos t, r sin t, 0) in the arc's own coordinates, after
\* shift([0, 0, d]) and rotate_about_origin(angle, axis = rotvec).  rotvec is
\* the rotation vector of the matrix M with rows x, y, z and angle is minus
\* its length, so the rotation applied is the inverse of M, its transpose:
\* (u, v, w) goes to u*x + v*y + w*z.
ArcPoint(f, t) ==
    VAdd(VAdd(VScale(CosDeg(t), RX(f)), VScale(SinDeg(t), RY(f))),
         VScale(f.d, f.z))

\* Arc(r, 0., a * DEGREES).shift(...).rotate_about_origin(...): its radius
\* (squared), the angle it spans, its centre and its two ends
MakeArc(f, a) ==
    IF f.nan
    THEN [nan |-> TRUE, radius2 |-> f.r2, angle |-> a,
          centre |-> Zero3, start |-> Zero3, end |-> Zero3]
    ELSE [nan |-> FALSE, radius2 |-> f.r2, angle |-> a,
          centre |-> VScale(f.d, f.z), start |-> ArcPoint(f, 0),
          end |-> ArcPoint(f, a)]

\* the mobjects handed to gl.add and gl.add_fixed_orientation_mobjects
Added(show_basis) ==
    {"axes", "sphere", "orbit", "pole_0", "pole_1", "vec", "arc", "state_psi"}
        \cup (IF show_basis THEN {"state_0", "state_1"} ELSE {})

\* ValueTracker.increment_value
IncrementValue(v, d) == v + d

\* ----------------------------------------------------------------------
\* The updaters (run by the framework on every rendered frame)
\* ----------------------------------------------------------------------

\* the arrow's updater rotating the displayed arrow, not a copy of vec_ref
VecUpdater_Accumulates(v, ref, a, axis) == Rotate(v, a, axis)

\* lines 48-53: x.become(vec_ref.copy()).rotate_about_origin(rot, axis)
VecUpdater(v, ref, a, axis) == Rotate(ref, a, axis)

\* lines 70-80: x.become(Arc(r, 0., rot).shift(...).rotate_about_origin(...))
ArcUpdater(old, f, a) == MakeArc(f, a)

\* the moving label without its updater
PsiUpdater_Off(psi, point, a, axis) == psi

\* lines 115-122: x.move_to(Dot3D(point * 1.25).rotate_about_origin(rot, axis))
PsiUpdater(psi, point, a, axis) ==
    IF psi.updating
    THEN [psi EXCEPT !.pos = Rotate(LabelRadius(point), a, axis)]
    ELSE psi


VARIABLES
    args,            \* the arguments of the call of qubit()
    pc,              \* "call", the line of the next timeline statement, "done" or "raised"
    playing,         \* inside the wait or play of line pc
    frames,          \* frames rendered in the current wait or play
    rot,             \* the ValueTracker's value, in degrees
    point,           \* the start point
    vec_ref,         \* the tip of the reference copy of the arrow
    vec,             \* the tip of the displayed arrow
    frame,           \* x, y, z, r and d of lines 55-59
    arc,             \* the displayed arc
    state_psi,       \* the moving label
    state_psi_end,   \* the end label
    state_psi_coef,  \* the coefficient label
    state_rot,       \* the rotation animation: the tracker's start and target
    anim_start,      \* the Transform's copy of state_psi's position at its start
    added,           \* the mobjects added to the scene
    timeline,        \* the waits and plays begun, with their run times (in 0.1 s)
    elapsed          \* run time of the waits and plays finished (in 0.1 s)

vars == <<args, pc, playing, frames, rot, point, vec_ref, vec, frame, arc,
          state_psi, state_psi_end, state_psi_coef, state_rot, anim_start,
          added, timeline, elapsed>>

Init ==
    /\ args \in Scenes \cup OtherCalls
    /\ pc = "call"
    /\ playing = FALSE
    /\ frames = 0
    /\ rot = 0
    /\ point = Zero3
    /\ vec_ref = Zero3
    /\ vec = Zero3
    /\ frame = NaNFrame(Zero3, Zero3)
    /\ arc = MakeArc(NaNFrame(Zero3, Zero3), 0)
    /\ state_psi = [tex |-> "None", pos |-> Zero3, updating |-> FALSE]
    /\ state_psi_end = [tex |-> "None", pos |-> Zero3]
    /\ state_psi_coef = [tex |-> "None", created |-> FALSE]
    /\ state_rot = [start |-> 0, target |-> 0]
    /\ anim_start = Zero3
    /\ added = {}
    /\ timeline = <<>>
    /\ elapsed = 0

\* lines 23-146 with the frame f
Build(f) ==
    LET p == Point(args.start_point)
    IN  /\ rot' = 0
        /\ point' = p
        /\ vec_ref' = p
        /\ vec' = p
        /\ frame' = f
        /\ arc' = MakeArc(f, 0)
        /\ state_psi' = [tex |-> args.start_name, pos |-> LabelRadius(p),
                         updating |-> TRUE]
        /\ state_psi_end' = [tex |-> args.end_name,
                             pos |-> Rotate(LabelRadius(p), args.rotate_angle,
                                            args.rotate_axis)]
        /\ state_psi_coef' = [tex |-> args.end_coef, created |-> FALSE]
        /\ state_rot' = [start |-> 0, target |-> IncrementValue(0, args.rotate_angle)]
        /\ added' = Added(args.show_basis)
        /\ pc' = "l148"
        /\ UNCHANGED <<args, playing, frames, anim_start, timeline, elapsed>>

\* construction with r > 0
Construct ==
    /\ pc = "call"
    /\ \/ /\ ~Collinear(Point(args.start_point), args.rotate_axis)
          /\ Build(Frame(Point(args.start_point), args.rotate_axis))
       \/ /\ ResiduePossible(args.start_point, args.rotate_axis)
          /\ \E u \in ResidueDirs(args.rotate_axis) :
                Build(ResidueFrame(Point(args.start_point), args.rotate_axis, u))

\* construction with r = 0.0: x /= r is 0/0 (numpy warns and stores NaN) and
\* Rotation.from_matrix, as_rotvec and the arc's placement compute with NaN
ConstructNaN ==
    /\ pc = "call"
    /\ FloatZeroPossible(args.start_point, args.rotate_axis)
    /\ Build(NaNFrame(Point(args.start_point), args.rotate_axis))

\* construction with r = 0.0 where Rotation.from_matrix rejects the NaN
\* matrix: qubit() ends with the exception at line 60
ConstructRaise ==
    /\ pc = "call"
    /\ FloatZeroPossible(args.start_point, args.rotate_axis)
    /\ pc' = "raised"
    /\ point' = Point(args.start_point)
    /\ vec_ref' = point'
    /\ vec' = point'
    /\ frame' = NaNFrame(point', args.rotate_axis)
    /\ UNCHANGED <<args, playing, frames, rot, arc, state_psi, state_psi_end,
                   state_psi_coef, state_rot, anim_start, added, timeline, elapsed>>

\* ----------------------------------------------------------------------
\* qubit(): the timeline (lines 148-151)
\* ----------------------------------------------------------------------

\* the rotation play given a run time in proportion to its angle
RunTime_ByAngle(line) ==
    CASE line = "l148" -> 5
      [] line = "l149" -> args.rotate_angle \div 12
      [] line = "l150" -> 5
      [] line = "l151" -> 5

\* the run time of the wait or play at a line, in tenths of a second:
\* gl.wait(.5); gl.play(state_rot, run_time=1.5);
\* gl.play(state_anim, run_time=.5); gl.wait(.5)
RunTime(line) ==
    CASE line = "l148" -> 5
      [] line = "l149" -> 15
      [] line = "l150" -> 5
      [] line = "l151" -> 5

\* what a line hands to the scene
Played(line) ==
    CASE line = "l148" -> "wait"
      [] line = "l149" -> "state_rot"
      [] line = "l150" -> "state_anim"
      [] line = "l151" -> "wait"

\* the two plays in the other order
NextLine_SwapFirst(line) ==
    CASE line = "l148" -> "l150"
      [] line = "l150" -> "l149"
      [] line = "l149" -> "l151"
      [] line = "l151" -> "done"

\* the statement after a line
NextLine(line) ==
    CASE line = "l148" -> "l149"
      [] line = "l149" -> "l150"
      [] line = "l150" -> "l151"
      [] line = "l151" -> "done"

\* the tracker's value at alpha = j/k of the rotation animation:
\* interpolation between its value at the start and its target
TrackerAt(start, target, j, k) == start + ((target - start) * j) \div k

\* the grid steps of the rotation, so that j/k of it is a multiple of 45
GridSteps == args.rotate_angle \div 45

\* interpolation between two positions at alpha = 1/2
Midpoint(u, v) == VScale(Q(1, 0, 2), VAdd(u, v))

\* Scene.update_mobjects at tracker value a: every updater runs
UpdateMobjects(a) ==
    /\ vec' = VecUpdater(vec, vec_ref, a, args.rotate_axis)
    /\ arc' = ArcUpdater(arc, frame, a)
    /\ state_psi' = PsiUpdater(state_psi, point, a, args.rotate_axis)

\* a wait or play begins
Begin ==
    /\ playing' = TRUE
    /\ frames' = 0
    /\ timeline' = Append(timeline, <<Played(pc), RunTime(pc)>>)

\* a wait or play ends
End ==
    /\ playing' = FALSE
    /\ frames' = 0
    /\ elapsed' = elapsed + RunTime(pc)
    /\ pc' = NextLine(pc)

\* gl.wait(.5), lines 148 and 151
WaitBegin ==
    /\ pc \in {"l148", "l151"}
    /\ ~playing
    /\ Begin
    /\ UNCHANGED <<args, pc, rot, point, vec_ref, vec, frame, arc, state_psi,
                   state_psi_end, state_psi_coef, state_rot, anim_start, added,
                   elapsed>>

\* a frame of a wait: the updaters run, nothing is animated
WaitFrame ==
    /\ pc \in {"l148", "l151"}
    /\ playing
    /\ frames < MaxFrames
    /\ frames' = frames + 1
    /\ UpdateMobjects(rot)
    /\ UNCHANGED <<args, pc, playing, rot, point, vec_ref, frame, state_psi_end,
                   state_psi_coef, state_rot, anim_start, added, timeline, elapsed>>

WaitEnd ==
    /\ pc \in {"l148", "l151"}
    /\ playing
    /\ End
    /\ UNCHANGED <<args, rot, point, vec_ref, vec, frame, arc, state_psi,
                   state_psi_end, state_psi_coef, state_rot, anim_start, added,
                   timeline>>

\* gl.play(state_rot, run_time=1.5) begins: the animation takes the
\* tracker's current value as its start and sets alpha = 0
RotBegin ==
    /\ pc = "l149"
    /\ ~playing
    /\ Begin
    /\ state_rot' = [state_rot EXCEPT !.start = rot]
    /\ rot' = TrackerAt(rot, state_rot.target, 0, GridSteps)
    /\ UNCHANGED <<args, pc, point, vec_ref, vec, frame, arc, state_psi,
                   state_psi_end, state_psi_coef, anim_start, added, elapsed>>

\* a frame of the rotation: the tracker is interpolated at the frame's
\* alpha (the rate function does not decrease), then the updaters run
RotFrame ==
    /\ pc = "l149"
    /\ playing
    /\ frames < MaxFrames
    /\ frames' = frames + 1
    /\ \E j \in 0..GridSteps :
          /\ TrackerAt(state_rot.start, state_rot.target, j, GridSteps) >= rot
          /\ rot' = TrackerAt(state_rot.start, state_rot.target, j, GridSteps)
    /\ UpdateMobjects(rot')
    /\ UNCHANGED <<args, pc, playing, point, vec_ref, frame, state_psi_end,
                   state_psi_coef, state_rot, anim_start, added, timeline, elapsed>>

\* the rotation ends: the animation finishes at alpha = 1 and the updaters
\* run once more
RotEnd ==
    /\ pc = "l149"
    /\ playing
    /\ End
    /\ rot' = TrackerAt(state_rot.start, state_rot.target, GridSteps, GridSteps)
    /\ UpdateMobjects(rot')
    /\ UNCHANGED <<args, point, vec_ref, frame, state_psi_end, state_psi_coef,
                   state_rot, anim_start, added, timeline>>

\* gl.play(state_anim, run_time=.5) begins: Transform(state_psi,
\* state_psi_end) copies state_psi as its start and suspends its updater
SwapBegin ==
    /\ pc = "l150"
    /\ ~playing
    /\ Begin
    /\ anim_start' = state_psi.pos
    /\ state_psi' = [state_psi EXCEPT !.updating = FALSE]
    /\ UNCHANGED <<args, pc, rot, point, vec_ref, vec, frame, arc,
                   state_psi_end, state_psi_coef, state_rot, added, elapsed>>

\* a frame of the swap: state_psi is interpolated between its start and
\* state_psi_end; the other updaters run
SwapFrame ==
    /\ pc = "l150"
    /\ playing
    /\ frames < MaxFrames
    /\ frames' = frames + 1
    /\ vec' = VecUpdater(vec, vec_ref, rot, args.rotate_axis)
    /\ arc' = ArcUpdater(arc, frame, rot)
    /\ state_psi' = [state_psi EXCEPT !.pos = Midpoint(anim_start, state_psi_end.pos)]
    /\ UNCHANGED <<args, pc, playing, rot, point, vec_ref, frame, state_psi_end,
                   state_psi_coef, state_rot, anim_start, added, timeline, elapsed>>

\* the swap ends: state_psi has become state_psi_end and its updater is
\* resumed and run; the coefficient label, if there is one, is drawn
SwapEnd ==
    /\ pc = "l150"
    /\ playing
    /\ End
    /\ vec' = VecUpdater(vec, vec_ref, rot, args.rotate_axis)
    /\ arc' = ArcUpdater(arc, frame, rot)
    /\ state_psi' = PsiUpdater([tex |-> state_psi_end.tex, pos |-> state_psi_end.pos,
                                updating |-> TRUE],
                               point, rot, args.rotate_axis)
    /\ state_psi_coef' = [state_psi_coef EXCEPT !.created = (args.end_coef # "None")]
    /\ added' = added \cup (IF args.end_coef # "None" THEN {"state_psi_coef"} ELSE {})
    /\ UNCHANGED <<args, rot, point, vec_ref, frame, state_psi_end, state_rot,
                   anim_start, timeline>>

Next ==
    \/ Construct
    \/ ConstructNaN
    \/ ConstructRaise
    \/ WaitBegin
    \/ WaitFrame
    \/ WaitEnd
    \/ RotBegin
    \/ RotFrame
    \/ RotEnd
    \/ SwapBegin
    \/ SwapFrame
    \/ SwapEnd

Spec == Init /\ [][Next]_vars
\* ----------------------------------------------------------------------
\* Properties
\* ----------------------------------------------------------------------

\* qubit() has built the scene (lines 23-146 ran to the end)
Built == pc \notin {"call", "raised"}

\* the rotation play of line 149 has finished
Rotated == pc \in {"l150", "l151", "done"}

\* the Bloch-sphere point of a basis label
BlochPoint(name) ==
    CASE name = "|0>" -> Zaxis
      [] name = "|1>" -> VScale(QInt(-1), Zaxis)
      [] name = "|+>" -> Xaxis
      [] name = "|->" -> VScale(QInt(-1), Xaxis)

\* C1: in each of the eight basis-state scenes, once the rotation play has
\* finished the arrow's tip (the start point rotated by rotate_angle about
\* rotate_axis) is the Bloch-sphere point of the end label, and the end label
\* sits at 1.25 times that point: X0, Y0 end at (0,0,-1), X1, Y1 at (0,0,1),
\* Z0 stays at (0,0,1), Z1 at (0,0,-1), H0 ends at (1,0,0), H1 at (-1,0,0).
C1_BasisScenesEndOnLabel ==
    (args \in BasisScenes /\ Rotated) =>
        /\ args.rotate_angle = 180
        /\ vec = BlochPoint(args.end_name)
        /\ Rotate(Point(args.start_point), args.rotate_angle, args.rotate_axis)
             = BlochPoint(args.end_name)
        /\ state_psi_end.pos = LabelRadius(BlochPoint(args.end_name))
        /\ args.scene \in {"X0", "Y0", "Z1"} => vec = <<QZero, QZero, QInt(-1)>>
        /\ args.scene \in {"X1", "Y1", "Z0"} => vec = <<QZero, QZero, QOne>>
        /\ args.scene = "H0" => vec = <<QOne, QZero, QZero>>
        /\ args.scene = "H1" => vec = <<QInt(-1), QZero, QZero>>

C1_Witness ==
    /\ args = H1
    /\ pc = "done"
    /\ vec_ref = <<QZero, QZero, QInt(-1)>>
    /\ vec = <<QInt(-1), QZero, QZero>>

\* C5: the point computed from any start_point = (azimuth, polar) has squared
\* norm 1; [0, 0] gives (0, 0, 1) and [0, 180] gives (0, 0, -1).
C5_PointOnUnitSphere ==
    pc # "call" =>
        /\ point = Point(args.start_point)
        /\ NormSq(point) = QOne
        /\ args.start_point = <<0, 0>> => point = <<QZero, QZero, QOne>>
        /\ args.start_point = <<0, 180>> => point = <<QZero, QZero, QInt(-1)>>

C5_Witness ==
    /\ pc # "call"
    /\ args.start_point = <<45, 135>>
    /\ point = <<Q(1, 0, 2), Q(1, 0, 2), QNeg(QHalfRoot2)>>

\* C7: for a start point that is not collinear with the unit rotation axis z,
\* the frame (x, y, z) is orthonormal and right-handed; the arc is placed by
\* the inverse of the matrix with rows x, y, z after the shift by d, so that
\* the matrix takes the arc's start back to (r, 0, d); the arc's circle is
\* centred at d*z, lies in the plane perpendicular to z, has radius r with
\* r^2 + d^2 = 1, and starts at the start point, the tip of the arrow.
\* (x is xdir/sqrt(n2) and y is ydir/sqrt(n2), and here n2 = r2.)
C7_FrameOrthonormalArcOnSphere ==
    (Built /\ ~Collinear(point, args.rotate_axis)) =>
        /\ ~frame.nan
        /\ QSign(frame.r2) = 1
        /\ frame.n2 = frame.r2
        /\ frame.z = args.rotate_axis
        /\ frame.xdir = VSub(point, VScale(Dot(point, frame.z), frame.z))
        /\ frame.ydir = Cross(frame.z, frame.xdir)
        /\ NormSq(frame.z) = QOne
        /\ NormSq(frame.xdir) = frame.n2
        /\ NormSq(frame.ydir) = frame.n2
        /\ Dot(frame.xdir, frame.ydir) = QZero
        /\ Dot(frame.xdir, frame.z) = QZero
        /\ Dot(frame.ydir, frame.z) = QZero
        /\ Det3(frame.xdir, frame.ydir, frame.z) = frame.n2
        /\ frame.d = Dot(point, frame.z)
        /\ ~arc.nan
        /\ Dot(frame.xdir, arc.start) = frame.r2
        /\ Dot(frame.ydir, arc.start) = QZero
        /\ Dot(frame.z, arc.start) = frame.d
        /\ arc.centre = VScale(frame.d, frame.z)
        /\ Dot(VSub(arc.start, arc.centre), frame.z) = QZero
        /\ Dot(VSub(arc.end, arc.centre), frame.z) = QZero
        /\ NormSq(VSub(arc.start, arc.centre)) = frame.r2
        /\ NormSq(VSub(arc.end, arc.centre)) = frame.r2
        /\ arc.radius2 = frame.r2
        /\ QAdd(frame.r2, QMul(frame.d, frame.d)) = QOne
        /\ arc.start = point
        /\ arc.start = vec_ref

C7_Witness ==
    /\ args = H
    /\ Built
    /\ ~Collinear(point, args.rotate_axis)
    /\ frame.r2 = Q(5, -2, 8)
    /\ arc.start = point

\* C8: in every one of the twelve declared scenes r is strictly positive,
\* x /= r never divides by zero, and the frame and the arc radius are well
\* defined, including Z0 and Z1.
C8_NoSceneDividesByZero ==
    (args \in Scenes /\ pc # "call") => (pc # "raised" /\ ~frame.nan)

\* ---- the gates, for C2 ------------------------------------------------
\* A complex number is <<re, im>>; a ket is its two amplitudes; a gate is a
\* 2 x 2 matrix, given by its rows.

CZero == <<QZero, QZero>>
COne == <<QOne, QZero>>
CAdd(u, v) == <<QAdd(u[1], v[1]), QAdd(u[2], v[2])>>
CMul(u, v) ==
    <<QSub(QMul(u[1], v[1]), QMul(u[2], v[2])),
      QAdd(QMul(u[1], v[2]), QMul(u[2], v[1]))>>
CConj(u) == <<u[1], QNeg(u[2])>>

Ket(name) ==
    CASE name = "|0>" -> <<COne, CZero>>
      [] name = "|1>" -> <<CZero, COne>>
      [] name = "|+>" -> <<<<QHalfRoot2, QZero>>, <<QHalfRoot2, QZero>>>>
      [] name = "|->" -> <<<<QHalfRoot2, QZero>>, <<QNeg(QHalfRoot2), QZero>>>>

\* the gate whose Bloch-sphere action is the half turn about the unit axis
\* n: n.x * sigma_x + n.y * sigma_y + n.z * sigma_z, which is the Pauli X, Y
\* or Z gate about a coordinate axis and the Hadamard gate about Haxis
Gate(n) ==
    <<<<(<<n[3], QZero>>), (<<n[1], QNeg(n[2])>>)>>,
      <<(<<n[1], n[2]>>), (<<QNeg(n[3]), QZero>>)>>>>

Apply(g, k) ==
    <<CAdd(CMul(g[1][1], k[1]), CMul(g[1][2], k[2])),
      CAdd(CMul(g[2][1], k[1]), CMul(g[2][2], k[2]))>>

\* <e|k>
Amplitude(e, k) == CAdd(CMul(CConj(e[1]), k[1]), CMul(CConj(e[2]), k[2]))

KetScale(c, k) == <<CMul(c, k[1]), CMul(c, k[2])>>

\* the number a coefficient label stands for
Coef(label) ==
    CASE label = "None" -> COne
      [] label = "i" -> <<QZero, QOne>>
      [] label = "-i" -> <<QZero, QInt(-1)>>
      [] label = "-" -> <<QInt(-1), QZero>>

\* C2: in each basis-state scene the end label with its coefficient label is
\* the gate applied to the start state (X|0>=|1>, X|1>=|0>, Y|0>=i|1>,
\* Y|1>=-i|0>, Z|0>=|0>, Z|1>=-|1>, H|0>=|+>, H|1>=|->); end_coef is given
\* exactly for the scenes whose resulting amplitude is not 1 (Y0, Y1, Z1);
\* and the coefficient label is created exactly when end_coef is not None:
\* never before the label swap, and by its end if and only if end_coef is
\* given, when the moving label shows the end label.
C2_LabelsAreGateOnStart ==
    /\ args \in BasisScenes =>
         LET out == Apply(Gate(args.rotate_axis), Ket(args.start_name))
             amp == Amplitude(Ket(args.end_name), out)
         IN  /\ out = KetScale(Coef(args.end_coef), Ket(args.end_name))
             /\ amp = Coef(args.end_coef)
             /\ (args.end_coef # "None") <=> (amp # COne)
             /\ (args.end_coef # "None") <=> (args.scene \in {"Y0", "Y1", "Z1"})
    /\ Built =>
         /\ state_psi_coef.tex = args.end_coef
         /\ state_psi_coef.created <=> (args.end_coef # "None" /\ pc \in {"l151", "done"})
         /\ ("state_psi_coef" \in added) <=> state_psi_coef.created
         /\ pc \in {"l151", "done"} => state_psi.tex = args.end_name

C2_Witness ==
    /\ args = Y1
    /\ pc = "done"
    /\ state_psi_coef = [tex |-> "-i", created |-> TRUE]
    /\ state_psi.tex = "|0>"

\* where the tracker stands at each point of the timeline
C3_State ==
    /\ (pc \in {"call", "raised", "l148"} \/ (pc = "l149" /\ ~playing)) => rot = 0
    /\ (pc = "l149" /\ playing) => (0 <= rot /\ rot <= args.rotate_angle)
    /\ Rotated => rot = args.rotate_angle
    /\ (\E i \in 1..Len(timeline) : timeline[i][1] = "state_anim") =>
         /\ Len(timeline) >= 3
         /\ timeline[2][1] = "state_rot"
         /\ Rotated
         /\ elapsed >= 20
         /\ rot = args.rotate_angle

\* C3: the label swap starts only after the rotation play has finished, when
\* the tracker has gone from 0 to exactly rotate_angle; the tracker is 0
\* until the rotation play, is rotate_angle during the label swap and the
\* final wait, and only a step of the rotation play changes it.
C3_SwapAfterRotation ==
    /\ []C3_State
    /\ [][rot' # rot => (pc = "l149" /\ playing)]_vars

C3_Witness ==
    /\ args = X0
    /\ pc = "l150"
    /\ playing
    /\ frames = 1
    /\ rot = 180
    /\ timeline[3][1] = "state_anim"

\* C4: at every frame of every scene the arrow, the arc and the moving label
\* show the same tracker value a: the arrow is the reference arrow rotated by
\* a about rotate_axis, the arc is an arc about rotate_axis spanning exactly
\* a (it starts at the start point and ends at the arrow's tip), and the
\* label sits at 1.25*point rotated by a; once the rotation play has ended a
\* is rotate_angle.
C4_SameTrackerValue ==
    (args \in Scenes /\ Built) =>
        /\ vec = Rotate(vec_ref, rot, args.rotate_axis)
        /\ ~arc.nan
        /\ arc.angle = rot
        /\ arc.start = point
        /\ arc.end = Rotate(arc.start, rot, args.rotate_axis)
        /\ arc.end = vec
        /\ state_psi.pos = Rotate(LabelRadius(point), rot, args.rotate_axis)
        /\ state_psi.pos = LabelRadius(vec)
        /\ Rotated => arc.angle = args.rotate_angle

\* the timeline of lines 148-151 (times in tenths of a second)
Timeline ==
    <<(<<"wait", 5>>), (<<"state_rot", 15>>), (<<"state_anim", 5>>), (<<"wait", 5>>)>>

C9_SwapInPlace ==
    /\ Built => state_psi_end.pos =
                  Rotate(LabelRadius(point), args.rotate_angle, args.rotate_axis)
    /\ (pc = "l150" /\ playing) =>
         /\ anim_start = state_psi_end.pos
         /\ state_psi.pos = state_psi_end.pos
    /\ pc \in {"l151", "done"} => state_psi.pos = state_psi_end.pos

C9_Witness ==
    /\ args = H0
    /\ pc = "l150"
    /\ playing
    /\ frames = 1
    /\ ~state_psi.updating
    /\ state_psi.pos = <<Q(5, 0, 4), QZero, QZero>>
    /\ state_psi.pos # LabelRadius(point)

\* the arrow and the arc as functions of the tracker value
C10_State ==
    Built =>
        /\ vec_ref = point
        /\ vec = Rotate(vec_ref, rot, args.rotate_axis)
        /\ arc = MakeArc(frame, rot)

\* C10: the displayed arrow and arc depend only on the current tracker
\* value: the arrow is always the reference arrow rotated by the tracker
\* value and the arc is the arc built for it, the reference arrow never
\* changes once taken, and a step that leaves the tracker value alone (an
\* updater run again at the same value) leaves the arrow and the arc alone.
C10_NoAccumulation ==
    /\ []C10_State
    /\ [][pc # "call" => vec_ref' = vec_ref]_vars
    /\ [][(pc # "call" /\ rot' = rot) => (vec' = vec /\ arc' = arc)]_vars

C10_Witness ==
    /\ args = X
    /\ pc = "l151"
    /\ playing
    /\ frames = 2
    /\ rot = 180
    /\ vec # vec_ref
    /\ arc.angle = 180

====
